---------------------------- MODULE Spec2Model ----------------------------
(***************************************************************************)
(* A model of inst/extract.py (agcounter): the conversion of raw tri-axial *)
(* accelerometer samples into ActiGraph activity counts, in its vectorised *)
(* form (get_counts with fast=True: _extract) and in its loop form         *)
(* (fast=False: _extract_slow once per axis).                              *)
(*                                                                         *)
(* Numbers.  The program computes in IEEE double precision, which TLC does *)
(* not have.  Every real quantity of the program is held here as a         *)
(* fixed-point integer counting millionths (Unit), and the coefficients of *)
(* the two filters as integers counting 1e-8 (CoefScale).  A product is    *)
(* rounded to the nearest millionth, symmetrically in the sign, as the     *)
(* program's arithmetic is.  The integer stages (everything from the       *)
(* trimmer on) are exact.  Array shapes, index arithmetic, slices and the  *)
(* exceptions Python and numpy raise are modelled exactly.                 *)
(***************************************************************************)
EXTENDS Integers, Sequences, FiniteSets, TLC

(***************************************************************************)
(* Fixed-point arithmetic                                                  *)
(***************************************************************************)
\* One unit of the program's floats is Unit model integers.
Unit == 1000 * 1000
\* A coefficient c of the program is the integer c * CoefScale.
CoefScale == 10000 * 10000
\* Products are formed in halves of Base to stay inside TLC's integers.
Base == 100 * 100

Abs(x) == IF x < 0 THEN -x ELSE x

Sgn(x) == IF x < 0 THEN -1 ELSE IF x > 0 THEN 1 ELSE 0

\* round(c * y / CoefScale) for c >= 0, y >= 0.
MulMag(c, y) ==
    LET ch == c \div Base
        cl == c % Base
        yh == y \div Base
        yl == y % Base
        m  == ch * yl + cl * yh
    IN  ch * yh + (m \div Base)
          + (((m % Base) * Base + cl * yl + (CoefScale \div 2)) \div CoefScale)

\* The product of coefficient c (in 1e-8) and value y (any unit), in y's unit.
MulFix(c, y) == Sgn(c) * Sgn(y) * MulMag(Abs(c), Abs(y))

RECURSIVE DivDigits(_, _, _, _)
DivDigits(q, r, den, digits) ==
    IF digits = 0 THEN q
    ELSE DivDigits(q * 10 + ((r * 10) \div den), (r * 10) % den, den, digits - 1)

\* floor(num * CoefScale / den) for num >= 0, den > 0, by long division.
DivMag(num, den) == DivDigits(num \div den, num % den, den, 8)

\* The quotient num / den as a coefficient (in 1e-8).
DivFix(num, den) == Sgn(num) * Sgn(den) * DivMag(Abs(num), Abs(den))

\* np.round(x) of x = v / m: to the nearest integer, a tie to the even one.
RoundHalfEven(v, m) ==
    LET q == v \div m
        r == v % m
    IN  IF 2 * r > m \/ (2 * r = m /\ q % 2 = 1) THEN q + 1 ELSE q

\* np.round(x * 1000) / 1000: x to three decimal places.
Round3(v) == RoundHalfEven(v, Unit \div 1000) * (Unit \div 1000)

(***************************************************************************)
(* Arrays.  A one-dimensional array is a sequence (index i of Python is    *)
(* i + 1 here); a two-dimensional array is a sequence of rows.             *)
(***************************************************************************)
\* The array f as an explicit tuple: TLC keeps a function constructor
\* unevaluated, and would evaluate it again at every use.
Arr(f) == f \o <<>>

Min(a, b) == IF a < b THEN a ELSE b

Max(a, b) == IF a > b THEN a ELSE b

\* Python's s[start:] on a sequence of length n: the start index, clipped.
ClipIndex(i, n) == IF i < 0 THEN Max(i + n, 0) ELSE Min(i, n)

\* s[start:]
SliceFrom(s, start) ==
    LET n  == Len(s)
        lo == ClipIndex(start, n)
    IN  Arr([i \in 1..(n - lo) |-> s[lo + i]])

\* s[:stop]
SliceTo(s, stop) ==
    LET hi == ClipIndex(stop, Len(s))
    IN  Arr([i \in 1..hi |-> s[i]])

\* The 0-based indices of s[start::step] for a sequence of length n, step # 0.
StepIndices(n, start, step) ==
    IF step > 0
    THEN LET lo  == ClipIndex(start, n)
             cnt == IF lo >= n THEN 0 ELSE ((n - 1 - lo) \div step) + 1
         IN  Arr([i \in 1..cnt |-> lo + (i - 1) * step])
    ELSE LET st  == IF start < 0 THEN Max(start + n, -1) ELSE Min(start, n - 1)
             cnt == IF st < 0 THEN 0 ELSE (st \div (-step)) + 1
         IN  Arr([i \in 1..cnt |-> st + (i - 1) * step])

\* s[start::step], step # 0
SliceStep(s, start, step) ==
    LET ix == StepIndices(Len(s), start, step)
    IN  Arr([i \in 1..Len(ix) |-> s[ix[i] + 1]])

\* np.cumsum along the row.
RECURSIVE CumSumFrom(_, _, _, _)
CumSumFrom(s, lo, hi, acc) ==
    IF lo > hi THEN acc
    ELSE IF lo = hi THEN Append(acc, (IF lo = 1 THEN 0 ELSE acc[lo - 1]) + s[lo])
    ELSE LET mid  == (lo + hi) \div 2
             left == CumSumFrom(s, lo, mid, acc)
         IN  IF Len(left) = mid THEN CumSumFrom(s, mid + 1, hi, left) ELSE left

CumSum(s) == CumSumFrom(s, 1, Len(s), <<>>)

\* sum(s[lo:hi]) of the loops, lo and hi 0-based, hi exclusive.
RECURSIVE SumRange(_, _, _)
SumRange(s, lo, hi) ==
    IF lo >= hi THEN 0 ELSE s[lo + 1] + SumRange(s, lo + 1, hi)

(***************************************************************************)
(* Program constants                                                       *)
(***************************************************************************)
\* INPUT_COEFFICIENTS, in 1e-8.
INPUT_COEFFICIENTS ==
    << -934106, -2547029, -423526, 4415242, 3649372,
       -1189396, -2291739, -678816, 0 >>

\* OUTPUT_COEFFICIENTS, in 1e-8.
OUTPUT_COEFFICIENTS ==
    << 100000000, -363367396, 503689813, -309612248, 50620508,
       32421702, -15685486, 1949130, 0 >>

\* np.pi, in 1e-7.
PiFix == 31415927

PiScale == 10 * Unit

\* (3.0 / 4096.0) / (2.6 / 256.0) * 237.5 = 17.12740385, in 1e-8.
ScaleFactor == DivFix(3 * 256 * 2375, 4096 * 26)

\* range(180 * 6): the iterations that charge the filter of _extract_slow.
ChargeIterations == 180 * 6

\* The frequencies get_counts accepts: range(30, 101, 10).
SupportedFrequencies == {f \in 30..100 : (f - 30) % 10 = 0}

(***************************************************************************)
(* _factors                                                                *)
(***************************************************************************)
\* <<upsample_factor, downsample_factor>>
Factors(frequency) ==
    CASE frequency = 30  -> <<1, 1>>
      [] frequency = 40  -> <<3, 4>>
      [] frequency = 50  -> <<3, 5>>
      [] frequency = 60  -> <<1, 2>>
      [] frequency = 70  -> <<3, 7>>
      [] frequency = 80  -> <<3, 8>>
      [] frequency = 90  -> <<1, 3>>
      [] frequency = 100 -> <<3, 10>>
      [] OTHER           -> <<1, 1>>

\* a_fp = pi / (pi + 2 * upsample_factor)
AFp(L) == DivFix(PiFix, PiFix + 2 * L * PiScale)

\* b_fp = (pi - 2 * upsample_factor) / (pi + 2 * upsample_factor)
BFp(L) == DivFix(PiFix - 2 * L * PiScale, PiFix + 2 * L * PiScale)

\* frequency == 30 or frequency == 60 or frequency == 90: no low-pass filter.
NoLpf(frequency) == frequency \in {30, 60, 90}

(***************************************************************************)
(* _resample (fast mode): all the rows of the transposed input at once.    *)
(***************************************************************************)
\* upsample_data = zeros((m, L * n)); upsample_data[:, ::L] = raw
ZeroStuff(row, L) ==
    Arr([i \in 1..(L * Len(row)) |->
            IF (i - 1) % L = 0 THEN row[((i - 1) \div L) + 1] ELSE 0])

\* A faulty shift, kept to show what the independence of the axes rests on:
\* np.roll(a, 1, axis=0), which hands every row the row before it.
RollRows(a) == Arr([r \in 1..Len(a) |-> a[((r - 2) % Len(a)) + 1]])

\* np.roll(a, 1) without an axis: the array is flattened, shifted by one
\* with wrap-around, and given its shape back.
Roll(a) ==
    LET m == Len(a)
        n == IF m = 0 THEN 0 ELSE Len(a[1])
        flat(k) == a[(k \div n) + 1][(k % n) + 1]
    IN  Arr([r \in 1..m |->
            Arr([c \in 1..n |-> flat(((r - 1) * n + (c - 1) - 1) % (m * n))])])

\* for i in range(lo, hi + 1): u[i] += -b_fp * u[i - 1]    (acc is u[0:i])
\* The range is halved rather than walked, to keep the evaluation shallow.
RECURSIVE LpfFeedback(_, _, _, _, _)
LpfFeedback(u, lo, hi, bfp, acc) ==
    IF lo > hi THEN acc
    ELSE IF lo = hi THEN Append(acc, u[lo + 1] + MulFix(-bfp, acc[lo]))
    ELSE LET mid  == (lo + hi) \div 2
             left == LpfFeedback(u, lo, mid, bfp, acc)
         IN  IF Len(left) = mid + 1 THEN LpfFeedback(u, mid + 1, hi, bfp, left) ELSE <<>>

\* One row of (a_fp * up_factor_fp) * (upsample_data + np.roll(upsample_data, 1))
\* behind the column of zeros of np.column_stack((z, upsample_data)).
LpfStacked(row, rolled, al) ==
    <<0>> \o [c \in 1..Len(row) |-> MulFix(al, row[c] + rolled[c])]

\* The low-pass stage of _resample on the zero-stuffed matrix up, rolled being
\* np.roll(up, 1), al being a_fp * up_factor_fp and bfp being b_fp.
LpfRows(up, rolled, al, bfp) ==
    Arr([r \in 1..Len(up) |->
           SliceFrom(LpfFeedback(LpfStacked(up[r], rolled[r], al),
                                 1, Len(up[r]), bfp, <<0>>), 1)])

LpfFast(up, L) == LpfRows(up, Roll(up), AFp(L) * L, BFp(L))

\* upsample_data[:, ::M] and np.round(downsample_data * 1000) / 1000
DownRound(lp, M) ==
    Arr([r \in 1..Len(lp) |->
           Arr([c \in 1..Len(StepIndices(Len(lp[r]), 0, M)) |->
                  Round3(lp[r][(c - 1) * M + 1])])])

\* _resample: raw is the transposed input, one row per column of the caller's.
Resample(data, frequency) ==
    IF frequency = 30 THEN DownRound(data, 1)
    ELSE IF NoLpf(frequency)
    THEN DownRound(Arr([r \in 1..Len(data) |-> ZeroStuff(data[r], Factors(frequency)[1])]),
                   Factors(frequency)[2])
    ELSE DownRound(LpfFast(Arr([r \in 1..Len(data) |-> ZeroStuff(data[r], Factors(frequency)[1])]),
                           Factors(frequency)[1]),
                   Factors(frequency)[2])

(***************************************************************************)
(* The resampling of _extract_slow: one axis, explicit loops.              *)
(***************************************************************************)
\* u[i] for a Python index i that may be negative (u[-1] is the last one).
PyAt(u, i) == IF i < 0 THEN u[Len(u) + i + 1] ELSE u[i + 1]

\* for i in range(lo, hi + 1):
\*     lpf[i] = (a_fp * l_fp) * up[i - 1] + (a_fp * l_fp) * up[i - 2]
\*              - b_fp * lpf[i - 1]                          (acc is lpf[0:i])
RECURSIVE LpfLoop(_, _, _, _, _, _)
LpfLoop(up, lo, hi, al, bfp, acc) ==
    IF lo > hi THEN acc
    ELSE IF lo = hi
    THEN Append(acc, MulFix(al, PyAt(up, lo - 1))
                     + MulFix(al, PyAt(up, lo - 2))
                     - MulFix(bfp, acc[lo]))
    ELSE LET mid  == (lo + hi) \div 2
             left == LpfLoop(up, lo, mid, al, bfp, acc)
         IN  IF Len(left) = mid + 1 THEN LpfLoop(up, mid + 1, hi, al, bfp, left) ELSE <<>>

\* lpf_upsample_data of _extract_slow, its first column already removed.
LpfSlow(up, frequency, L) ==
    IF NoLpf(frequency) THEN up
    ELSE SliceFrom(LpfLoop(up, 1, Len(up), AFp(L) * L, BFp(L), <<0>>), 1)

\* down_sample_data[0, i] = lpf_upsample_data[0, i * downsample_factor] for
\* i in range(floor(len * L / M)), then np.round(... * 1000) / 1000
DownRoundSlow(lpf, len) == Arr([i \in 1..len |-> Round3(lpf[i])])

DownLoop(lpf, len, M) == Arr([i \in 1..len |-> lpf[(i - 1) * M + 1]])

\* down_sample_data of _extract_slow, rounded to three decimal places.
ResampleSlow(data, frequency) ==
    IF frequency = 30 THEN DownRoundSlow(data, Len(data))
    ELSE DownRoundSlow(
           DownLoop(LpfSlow(ZeroStuff(data, Factors(frequency)[1]), frequency,
                            Factors(frequency)[1]),
                    (Len(data) * Factors(frequency)[1]) \div Factors(frequency)[2],
                    Factors(frequency)[2]),
           (Len(data) * Factors(frequency)[1]) \div Factors(frequency)[2])

(***************************************************************************)
(* _bpf_filter (fast mode): scipy.signal.lfilter, started from             *)
(* lfilter_zi(...) * x[0], the state of a filter that has seen x[0] for    *)
(* ever.  lfilter runs the transposed direct form II.                      *)
(***************************************************************************)
RECURSIVE SumSeq(_, _)
SumSeq(s, i) == IF i > Len(s) THEN 0 ELSE s[i] + SumSeq(s, i + 1)

\* scipy.signal.lfilter_zi(b, a) for a[0] = 1: zi[0] = sum(B) / sum(a) with
\* B[k] = b[k] - a[k] * b[0], then zi[k] = asum * zi[0] - csum.
LfilterZi(b, a) ==
    LET B(k)    == b[k + 1] - MulFix(a[k + 1], b[1])
        n       == Len(a)
        Bs      == Arr([k \in 1..(n - 1) |-> B(k)])
        zi0     == DivFix(SumSeq(Bs, 1), SumSeq(a, 1))
        asum(k) == SumSeq(SliceTo(a, k + 1), 1)
        csum(k) == SumSeq(SliceTo(Bs, k), 1)
    IN  Arr([i \in 1..(n - 1) |->
            IF i = 1 THEN zi0 ELSE MulFix(asum(i - 1), zi0) - csum(i - 1)])

\* zi of _bpf_filter: the same for every call.
FilterZi == LfilterZi(INPUT_COEFFICIENTS, OUTPUT_COEFFICIENTS)

\* One sample through lfilter: <<the new state, the output>>.
LfilterStep(z, x) ==
    LET b == INPUT_COEFFICIENTS
        a == OUTPUT_COEFFICIENTS
        y == z[1] + MulFix(b[1], x)
    IN  << [i \in 1..Len(z) |->
              (IF i < Len(z) THEN z[i + 1] ELSE 0)
                + MulFix(b[i + 1], x) - MulFix(a[i + 1], y)] \o <<>>,
           y >>

\* The samples x[lo..hi] through lfilter, st = <<the state, the outputs so far>>.
RECURSIVE LfilterFrom(_, _, _, _)
LfilterFrom(x, lo, hi, st) ==
    IF lo > hi THEN st
    ELSE IF lo = hi
    THEN LET nx == LfilterStep(st[1], x[lo])
         IN  << nx[1], Append(st[2], nx[2]) >>
    ELSE LET mid  == (lo + hi) \div 2
             left == LfilterFrom(x, lo, mid, st)
         IN  IF Len(left) = 2 THEN LfilterFrom(x, mid + 1, hi, left) ELSE left

\* signal.lfilter(a, b, row, zi = zi * row[0]) for a row that is not empty.
Lfilter(row) ==
    LfilterFrom(row, 1, Len(row),
                << Arr([i \in 1..Len(FilterZi) |-> MulFix(FilterZi[i], row[1])]), <<>> >>)[2]

\* downsample_data[:, 0] of an array without columns raises IndexError.
BpfFilterRaises(ds) == \E r \in 1..Len(ds) : Len(ds[r]) = 0

\* ((3.0 / 4096.0) / (2.6 / 256.0) * 237.5) * bpf_data
Scaled(y) == Arr([c \in 1..Len(y) |-> MulFix(ScaleFactor, y[c])])

\* _bpf_filter: the filtered rows, scaled to counts.
BpfFilter(ds) == Arr([r \in 1..Len(ds) |-> Scaled(Lfilter(ds[r]))])

(***************************************************************************)
(* The inputs the model is run on.  A raw series is held by columns: raw[k] *)
(* is column k - 1 of the caller's array, a sequence of values in          *)
(* millionths of g.                                                        *)
(***************************************************************************)
\* The longest raw series, in seconds of the sampling frequency.
MaxSeconds == 2

\* The longest epoch, in seconds.
MaxEpoch == 2

\* The epoch lengths that are no lengths: 0 down to -MaxBadEpoch.
MaxBadEpoch == 1

\* The number of layouts of test signals over the columns.
MaxLayout == 3

PatternIds == 0..3

\* Sample i (0-based) of test signal p at the given sampling frequency:
\* silence, a step to 4 g, a 2 Hz square wave of 1.234567 g, a ramp.
PatternValue(p, i, frequency) ==
    CASE p = 0 -> 0
      [] p = 1 -> IF i * 3 < frequency THEN 0 ELSE 4 * Unit
      [] p = 2 -> IF ((i * 4) \div frequency) % 2 = 0 THEN 1234567 ELSE -1234567
      [] OTHER -> 123456 + 30100 * i

Pattern(p, n, frequency) == Arr([i \in 1..n |-> PatternValue(p, i - 1, frequency)])

\* The test signal of column k in layout l: layout 1 is silence everywhere.
PatternOf(l, k) == IF l = 1 THEN 0 ELSE (l + k - 2) % 4

\* A raw series of n rows and ncols columns.
RawInput(l, n, ncols, frequency) ==
    Arr([k \in 1..ncols |-> Pattern(PatternOf(l, k), n, frequency)])

\* The lengths tried at a frequency: nothing, one sample, and one sample
\* short of and exactly each whole number of seconds.
Lengths(frequency) ==
    {0, 1} \cup {frequency * sec - d : sec \in 1..MaxSeconds, d \in {0, 1}}

\* Frequencies get_counts is called with: the supported ones and others.
FrequencyInputs == SupportedFrequencies \cup {45, 110}

EpochInputs == (0 - MaxBadEpoch)..MaxEpoch

ColumnInputs == {2, 3, 4}

(***************************************************************************)
(* The band-pass filter of _extract_slow: two shift registers of nine,     *)
(* charged with the first sample ChargeIterations times.                   *)
(***************************************************************************)
\* reg[1:9] = reg[0:8]; reg[0] = x
Shift(reg, x) == Arr([i \in 1..Len(reg) |-> IF i = 1 THEN x ELSE reg[i - 1]])

\* np.sum(coef[lo:hi] * reg[0:hi-lo]), lo and hi 0-based.
RECURSIVE DotFrom(_, _, _, _)
DotFrom(coef, reg, lo, hi) ==
    IF lo >= hi THEN 0
    ELSE MulFix(coef[lo + 1], reg[1]) + DotFrom(coef, SliceFrom(reg, 1), lo + 1, hi)

\* One pass of the loop body: the registers after it, st = <<in, out>>.
ShiftRegStep(st, x) ==
    LET in         == Shift(st[1], x)
        zeros_comp == DotFrom(INPUT_COEFFICIENTS, in, 0, 8)
        poles_comp == DotFrom(OUTPUT_COEFFICIENTS, st[2], 1, 8)
    IN  << in, Shift(st[2], zeros_comp - poles_comp) >>

\* for _ in range(k): the loop body with the same sample x each time.
RECURSIVE Charge(_, _, _)
Charge(st, x, k) ==
    IF k = 0 THEN st
    ELSE IF k = 1 THEN ShiftRegStep(st, x)
    ELSE LET half == Charge(st, x, k \div 2)
         IN  IF Len(half) = 2 THEN Charge(half, x, k - (k \div 2)) ELSE half

\* np.zeros((1, 9))
ZeroReg == Arr([i \in 1..9 |-> 0])

\* for j in range(lo - 1, hi): the loop body, and bpf_data[0, j] = the newest
\* output; st = <<in, out, bpf_data so far>>.
RECURSIVE ShiftRegFrom(_, _, _, _)
ShiftRegFrom(x, lo, hi, st) ==
    IF lo > hi THEN st
    ELSE IF lo = hi
    THEN LET nx == ShiftRegStep(st, x[lo])
         IN  << nx[1], nx[2], Append(st[3], nx[2][1]) >>
    ELSE LET mid  == (lo + hi) \div 2
             left == ShiftRegFrom(x, lo, mid, st)
         IN  IF Len(left) = 3 THEN ShiftRegFrom(x, mid + 1, hi, left) ELSE left

\* The registers after the charging loop.
ChargeFrom(x) == Charge(<<ZeroReg, ZeroReg>>, x, ChargeIterations)

\* The charged registers depend on the first sample alone: they are worked
\* out once for the first samples of the test signals.
ChargeInputs ==
    {ResampleSlow(Pattern(p, 4, f), f)[1] : p \in PatternIds, f \in SupportedFrequencies}

ChargeTable == [x \in ChargeInputs |-> ChargeFrom(x)] @@ <<>>

Charged(x) == IF x \in ChargeInputs THEN ChargeTable[x] ELSE ChargeFrom(x)

\* bpf_data of _extract_slow for a row that is not empty, scaled to counts.
BpfSlow(ds) ==
    Scaled(ShiftRegFrom(ds, 1, Len(ds), Charged(ds[1]) \o << <<>> >>)[3])

(***************************************************************************)
(* Trimming.  A filtered value v is in millionths of a count; a trimmed    *)
(* value is a whole number of counts.                                      *)
(***************************************************************************)
\* min_count and max_count with lfe_select False
MinCount == 4

MaxCount == 128

\* min_count and max_count with lfe_select True
LfeMinCount == 1

LfeMaxCount == 128 * 1

\* The upper end of the band of the LFE correction: trim_data < 4.
LfeBand == 4

\* np.floor of a value in millionths, as a whole number.
Floor(v) == v \div Unit

\* A faulty _trim_data, kept to show that the trimming rule is checked at
\* its thresholds: a value equal to min_count is cut to 0.
TrimValueInclusive(v, lfe) ==
    LET lo == IF lfe THEN LfeMinCount ELSE MinCount
        r  == Abs(v)
    IN  IF r <= lo * Unit THEN 0
        ELSE IF r > MaxCount * Unit THEN MaxCount
        ELSE IF lfe /\ r < LfeBand * Unit THEN Floor(r) - 1
        ELSE Floor(r)

\* _trim_data on one element: the masked assignments in the order of the code.
TrimValue(v, lfe) ==
    IF lfe
    THEN LET t0 == Abs(v)
             t1 == IF t0 < LfeMinCount * Unit /\ t0 >= LfeBand * Unit THEN 0 ELSE t0
             t2 == IF t1 > LfeMaxCount * Unit THEN LfeMaxCount * Unit ELSE t1
             t3 == IF t2 < LfeBand * Unit /\ t2 >= LfeMinCount * Unit
                   THEN Abs(t2) - 1 * Unit ELSE t2
         IN  Floor(t3)
    ELSE LET t0 == Abs(v)
             t1 == IF t0 < MinCount * Unit THEN 0 ELSE t0
             t2 == IF t1 > MaxCount * Unit THEN MaxCount * Unit ELSE t1
         IN  Floor(t2)

\* _trim_data
TrimData(bpf, lfe) ==
    Arr([r \in 1..Len(bpf) |->
           Arr([c \in 1..Len(bpf[r]) |-> TrimValue(bpf[r][c], lfe)])])

\* A faulty trimming loop, kept to show that the LFE band is checked: the
\* branch for values under 4 is left out.
TrimLoopValueNoBand(v, lfe) ==
    LET lo == IF lfe THEN LfeMinCount ELSE MinCount
    IN  IF Abs(v) > MaxCount * Unit THEN MaxCount
        ELSE IF Abs(v) < lo * Unit THEN 0
        ELSE Floor(Abs(v))

\* The body of the trimming loops of _extract_slow.
TrimLoopValue(v, lfe) ==
    IF lfe
    THEN IF Abs(v) > LfeMaxCount * Unit THEN LfeMaxCount
         ELSE IF Abs(v) < LfeMinCount * Unit THEN 0
         ELSE IF Abs(v) < LfeBand * Unit THEN Floor(Abs(v)) - 1
         ELSE Floor(Abs(v))
    ELSE IF Abs(v) > MaxCount * Unit THEN MaxCount
         ELSE IF Abs(v) < MinCount * Unit THEN 0
         ELSE Floor(Abs(v))

\* trim_data of _extract_slow
TrimLoop(bpf, lfe) ==
    Arr([i \in 1..Len(bpf) |-> TrimLoopValue(bpf[i], lfe)])

(***************************************************************************)
(* Block sums: _resample_10hz and _sum_counts by cumulative sums, and the  *)
(* loops of _extract_slow.                                                 *)
(***************************************************************************)
\* The hackish downsample to 10 Hz takes blocks of three.
TenHzBlock == 3

\* A faulty window difference, kept to show that the block sums are checked
\* past their first window: the cumulative sum is left as it is.
WindowDiffNone(d, k) == d

\* d[k:] = d[k:] - d[:-k] of a row d, for slices of equal length.
WindowDiff(d, k) ==
    LET lo  == ClipIndex(k, Len(d))
        sub == SliceTo(d, -k)
    IN  Arr([i \in 1..Len(d) |-> IF i > lo THEN d[i] - sub[i - lo] ELSE d[i]])

\* numpy refuses d[k:] - d[:-k], or the assignment of it to d[k:], when the
\* two slices differ in length, and a slice d[k - 1::k] with k = 0.
WindowRaises(d, k) ==
    \/ Len(SliceFrom(d, k)) # Len(SliceTo(d, -k))
    \/ k = 0

\* One row of _resample_10hz.
Resample10hzRow(trim) ==
    LET d == SliceStep(WindowDiff(CumSum(trim), TenHzBlock), TenHzBlock - 1, TenHzBlock)
    IN  Arr([i \in 1..Len(d) |-> d[i] \div TenHzBlock])

\* _resample_10hz
Resample10hz(trim) == Arr([r \in 1..Len(trim) |-> Resample10hzRow(trim[r])])

\* One row of _sum_counts for a block size it does not refuse.
SumCountsRow(d10, block_size) ==
    SliceStep(WindowDiff(CumSum(d10), block_size), block_size - 1, block_size)

\* _sum_counts raises ValueError
SumCountsRaises(d10, epoch_seconds) ==
    \E r \in 1..Len(d10) : WindowRaises(d10[r], epoch_seconds * 10)

\* _sum_counts
SumCounts(d10, epoch_seconds) ==
    Arr([r \in 1..Len(d10) |-> SumCountsRow(d10[r], epoch_seconds * 10)])

\* int(a / b) of Python for b # 0: the quotient cut towards zero.
IntDiv(a, b) == Sgn(a) * Sgn(b) * (Abs(a) \div Abs(b))

\* down_sample10_hz of _extract_slow
DecimateLoop(trim) ==
    Arr([y \in 1..IntDiv(Len(trim), TenHzBlock) |->
           SumRange(trim, (y - 1) * TenHzBlock, (y - 1) * TenHzBlock + TenHzBlock)
             \div TenHzBlock])

\* epoch_counts of _extract_slow for a block size with a length >= 0
EpochLoop(d10, block_size) ==
    Arr([i \in 1..IntDiv(Len(d10), block_size) |->
           SumRange(d10, (i - 1) * block_size, (i - 1) * block_size + block_size)])

(***************************************************************************)
(* _extract_slow: one axis from the raw column to its epoch counts.  The   *)
(* result names the exception raised ("none" when it returns), the row of  *)
(* epoch counts, and the stages that had run by then.                      *)
(***************************************************************************)
AllStages == {"resample", "filter", "trim", "resample_10hz", "sum"}

ExtractSlow(column, frequency, lfe, epoch_seconds) ==
    LET ds         == ResampleSlow(column, frequency)
        d10        == DecimateLoop(TrimLoop(BpfSlow(ds), lfe))
        block_size == epoch_seconds * 10
    IN  IF Len(ds) = 0
        \* down_sample_data[0, 0] in the charging loop
        THEN [err |-> "IndexError", val |-> <<>>, ran |-> {"resample"}]
        ELSE IF block_size = 0
        \* len(down_sample10_hz[0]) / block_size
        THEN [err |-> "ZeroDivisionError", val |-> <<>>,
              ran |-> AllStages \ {"sum"}]
        ELSE IF IntDiv(Len(d10), block_size) < 0
        \* np.zeros((1, n)) with n < 0
        THEN [err |-> "ValueError", val |-> <<>>, ran |-> AllStages \ {"sum"}]
        ELSE [err |-> "none", val |-> EpochLoop(d10, block_size), ran |-> AllStages]

\* np.transpose of a matrix of m rows: the columns as rows.
Transpose(a) ==
    IF Len(a) = 0 THEN <<>>
    ELSE Arr([c \in 1..Len(a[1]) |-> Arr([r \in 1..Len(a) |-> a[r][c]])])

\* The shape of a matrix of m rows of equal length.
Shape(a) == << Len(a), IF Len(a) = 0 THEN 0 ELSE Len(a[1]) >>

(***************************************************************************)
(* The state of one call of get_counts.                                    *)
(***************************************************************************)
VARIABLES
    raw,              \* the caller's array, by columns
    freq,             \* the sampling frequency passed
    epoch,            \* the epoch length passed
    fast,             \* the mode flag
    lfe_select,       \* the low-frequency-extension flag of the stages
    pc,               \* the statement the call is at
    err,              \* the exception raised, "none" while there is none
    ran,              \* the pipeline stages that have completed
    downsample_data,  \* _extract: output of _resample
    bpf_data,         \* _extract: output of _bpf_filter
    trim_data,        \* _extract: output of _trim_data
    downsample_10hz,  \* _extract: output of _resample_10hz
    epoch_counts,     \* _extract: output of _sum_counts
    slow_counts,      \* get_counts: the rows _extract_slow has returned
    loops,            \* the loop forms of the stages, where they were run
    counts,           \* the matrix returned
    shape             \* and its shape

vars == << raw, freq, epoch, fast, lfe_select, pc, err, ran, downsample_data,
           bpf_data, trim_data, downsample_10hz, epoch_counts, slow_counts,
           loops, counts, shape >>

intermediates == << downsample_data, bpf_data, trim_data, downsample_10hz,
                    epoch_counts, slow_counts >>

NoLoops == [trim |-> <<>>, decimate |-> <<>>, epochs |-> <<>>, done |-> {}]

\* Calls off the regular path (a column count other than 3, an epoch that
\* is no length, an unsupported frequency) are tried on layout 2.
InputShown(l, ncols, frequency, epoch_seconds) ==
    \/ l = 2
    \/ ncols = 3 /\ epoch_seconds >= 1 /\ frequency \in SupportedFrequencies

Init ==
    /\ freq \in FrequencyInputs
    /\ epoch \in EpochInputs
    /\ fast \in BOOLEAN
    /\ \E l \in 1..MaxLayout, ncols \in ColumnInputs, n \in Lengths(freq) :
          /\ InputShown(l, ncols, freq, epoch)
          /\ raw = RawInput(l, n, ncols, freq)
    /\ lfe_select = FALSE
    /\ pc = "call"
    /\ err = "none"
    /\ ran = {}
    /\ downsample_data = <<>>
    /\ bpf_data = <<>>
    /\ trim_data = <<>>
    /\ downsample_10hz = <<>>
    /\ epoch_counts = <<>>
    /\ slow_counts = <<>>
    /\ loops = NoLoops
    /\ counts = <<>>
    /\ shape = <<>>

\* A faulty frequency check, kept to show that the rejection is checked:
\* range(30, 101) without its step.
FreqInRange(frequency) == frequency \in 30..100

\* assert freq in range(30, 101, 10)
FreqAccepted(frequency) == frequency \in SupportedFrequencies

Raise(e) ==
    /\ pc' = "raised"
    /\ err' = e

\* get_counts up to the choice of the mode.
Call ==
    /\ pc = "call"
    /\ IF ~FreqAccepted(freq)
       THEN Raise("AssertionError")
       ELSE /\ pc' = IF fast THEN "resample" ELSE "slice"
            /\ err' = err
    /\ UNCHANGED << raw, freq, epoch, fast, lfe_select, ran, intermediates,
                    loops, counts, shape >>

\* _extract: downsample_data = _resample(raw, frequency)
ResampleStep ==
    /\ pc = "resample"
    /\ downsample_data' = Resample(raw, freq)
    /\ ran' = ran \cup {"resample"}
    /\ pc' = "filter"
    /\ UNCHANGED << raw, freq, epoch, fast, lfe_select, err, bpf_data, trim_data,
                    downsample_10hz, epoch_counts, slow_counts, loops, counts,
                    shape >>

\* _extract: bpf_data = _bpf_filter(downsample_data); del downsample_data
BpfFilterStep ==
    /\ pc = "filter"
    /\ IF BpfFilterRaises(downsample_data)
       THEN /\ Raise("IndexError")
            /\ UNCHANGED << ran, downsample_data, bpf_data >>
       ELSE /\ bpf_data' = BpfFilter(downsample_data)
            /\ downsample_data' = <<>>
            /\ ran' = ran \cup {"filter"}
            /\ pc' = "trim"
            /\ err' = err
    /\ UNCHANGED << raw, freq, epoch, fast, lfe_select, trim_data,
                    downsample_10hz, epoch_counts, slow_counts, loops, counts,
                    shape >>

\* _extract: trim_data = _trim_data(bpf_data, lfe_select); del bpf_data
TrimDataStep ==
    /\ pc = "trim"
    /\ trim_data' = TrimData(bpf_data, lfe_select)
    /\ bpf_data' = <<>>
    /\ ran' = ran \cup {"trim"}
    /\ pc' = "resample_10hz"
    /\ UNCHANGED << raw, freq, epoch, fast, lfe_select, err, downsample_data,
                    downsample_10hz, epoch_counts, slow_counts, loops, counts,
                    shape >>

\* _extract: downsample_10hz = _resample_10hz(trim_data); del trim_data
Resample10hzStep ==
    /\ pc = "resample_10hz"
    /\ downsample_10hz' = Resample10hz(trim_data)
    /\ trim_data' = <<>>
    /\ ran' = ran \cup {"resample_10hz"}
    /\ pc' = "sum"
    /\ UNCHANGED << raw, freq, epoch, fast, lfe_select, err, downsample_data,
                    bpf_data, epoch_counts, slow_counts, loops, counts, shape >>

\* _extract: epoch_counts = _sum_counts(downsample_10hz, epoch)
SumCountsStep ==
    /\ pc = "sum"
    /\ IF SumCountsRaises(downsample_10hz, epoch)
       THEN /\ Raise("ValueError")
            /\ UNCHANGED << ran, epoch_counts >>
       ELSE /\ epoch_counts' = SumCounts(downsample_10hz, epoch)
            /\ ran' = ran \cup {"sum"}
            /\ pc' = "return"
            /\ err' = err
    /\ UNCHANGED << raw, freq, epoch, fast, lfe_select, downsample_data,
                    bpf_data, trim_data, downsample_10hz, slow_counts, loops,
                    counts, shape >>

\* get_counts: counts = _extract(...).transpose(); return counts.astype(int)
Return ==
    /\ pc = "return"
    /\ counts' = Transpose(epoch_counts)
    /\ shape' = << Shape(epoch_counts)[2], Shape(epoch_counts)[1] >>
    /\ pc' = "done"
    /\ UNCHANGED << raw, freq, epoch, fast, lfe_select, err, ran, intermediates,
                    loops >>

\* get_counts, slow mode: the three column slices raw[0:len(raw), [k]]
Slice ==
    /\ pc = "slice"
    /\ IF Len(raw) < 3
       THEN Raise("IndexError")
       ELSE /\ pc' = "extract_slow"
            /\ err' = err
    /\ UNCHANGED << raw, freq, epoch, fast, lfe_select, ran, intermediates,
                    loops, counts, shape >>

\* get_counts, slow mode: one call of _extract_slow, for x, then y, then z
ExtractSlowStep ==
    /\ pc = "extract_slow"
    /\ \E res \in {ExtractSlow(raw[Len(slow_counts) + 1], freq, lfe_select, epoch)} :
       LET axis == Len(slow_counts) + 1
       IN  /\ ran' = ran \cup res.ran
           /\ IF res.err # "none"
              THEN /\ Raise(res.err)
                   /\ UNCHANGED slow_counts
              ELSE /\ slow_counts' = Append(slow_counts, res.val)
                   /\ pc' = IF axis = 3 THEN "concatenate" ELSE "extract_slow"
                   /\ err' = err
    /\ UNCHANGED << raw, freq, epoch, fast, lfe_select, downsample_data,
                    bpf_data, trim_data, downsample_10hz, epoch_counts, loops,
                    counts, shape >>

\* get_counts, slow mode: np.concatenate(...).transpose(), astype(int)
Concatenate ==
    /\ pc = "concatenate"
    /\ counts' = Transpose(slow_counts)
    /\ shape' = << Shape(slow_counts)[2], Shape(slow_counts)[1] >>
    /\ pc' = "done"
    /\ UNCHANGED << raw, freq, epoch, fast, lfe_select, err, ran, intermediates,
                    loops >>

Next ==
    \/ Call
    \/ ResampleStep
    \/ BpfFilterStep
    \/ TrimDataStep
    \/ Resample10hzStep
    \/ SumCountsStep
    \/ Return
    \/ Slice
    \/ ExtractSlowStep
    \/ Concatenate

Spec == Init /\ [][Next]_vars

(***************************************************************************)
(* get_counts as a function of its arguments: the exception it raises      *)
(* ("none" when it returns), the matrix it returns and the matrix's shape. *)
(***************************************************************************)
\* _extract
ExtractFast(data, frequency, lfe, epoch_seconds) ==
    LET ds  == Resample(data, frequency)
        d10 == Resample10hz(TrimData(BpfFilter(ds), lfe))
    IN  IF BpfFilterRaises(ds)
        THEN [err |-> "IndexError", val |-> <<>>]
        ELSE IF SumCountsRaises(d10, epoch_seconds)
        THEN [err |-> "ValueError", val |-> <<>>]
        ELSE [err |-> "none", val |-> SumCounts(d10, epoch_seconds)]

Raised(e) == [err |-> e, counts |-> <<>>, shape |-> <<>>]

Returned(rows) ==
    [err |-> "none", counts |-> Transpose(rows),
     shape |-> << Shape(rows)[2], Shape(rows)[1] >>]

\* get_counts with fast=True
GetCountsFast(data, frequency, epoch_seconds) ==
    LET res == ExtractFast(data, frequency, FALSE, epoch_seconds)
    IN  IF res.err # "none" THEN Raised(res.err) ELSE Returned(res.val)

\* get_counts with fast=False
GetCountsSlow(data, frequency, epoch_seconds) ==
    IF Len(data) < 3 THEN Raised("IndexError")
    ELSE LET x == ExtractSlow(data[1], frequency, FALSE, epoch_seconds)
             y == ExtractSlow(data[2], frequency, FALSE, epoch_seconds)
             z == ExtractSlow(data[3], frequency, FALSE, epoch_seconds)
         IN  IF x.err # "none" THEN Raised(x.err)
             ELSE IF y.err # "none" THEN Raised(y.err)
             ELSE IF z.err # "none" THEN Raised(z.err)
             ELSE Returned(<< x.val, y.val, z.val >>)

GetCounts(data, frequency, epoch_seconds, mode) ==
    IF ~FreqAccepted(frequency) THEN Raised("AssertionError")
    ELSE IF mode THEN GetCountsFast(data, frequency, epoch_seconds)
    ELSE GetCountsSlow(data, frequency, epoch_seconds)

(***************************************************************************)
(* The trimming stage on its own: _trim_data and the trimming loop of      *)
(* _extract_slow on the same filtered values, with either setting of       *)
(* lfe_select.                                                             *)
(***************************************************************************)
\* Filtered values are tried up to this many half counts either side of 0,
\* and one millionth either side of each.
MaxTrimHalves == 262

TrimInput(h) == << h * (Unit \div 2) - 1, h * (Unit \div 2), h * (Unit \div 2) + 1 >>

InitTrim ==
    /\ freq = 30
    /\ epoch = 1
    /\ fast = TRUE
    /\ raw = <<>>
    /\ lfe_select \in BOOLEAN
    /\ pc = "trim"
    /\ err = "none"
    /\ ran = {"resample", "filter"}
    /\ downsample_data = <<>>
    /\ \E h \in (0 - MaxTrimHalves)..MaxTrimHalves : bpf_data = << TrimInput(h) >>
    /\ trim_data = <<>>
    /\ downsample_10hz = <<>>
    /\ epoch_counts = <<>>
    /\ slow_counts = <<>>
    /\ loops = NoLoops
    /\ counts = <<>>
    /\ shape = <<>>

\* The trimming loop of _extract_slow, run on the values _trim_data is given.
TrimLoopStep ==
    /\ pc = "trim"
    /\ "trim" \notin loops.done
    /\ loops' = [loops EXCEPT !.trim = TrimLoop(bpf_data[1], lfe_select),
                              !.done = @ \cup {"trim"}]
    /\ UNCHANGED << raw, freq, epoch, fast, lfe_select, pc, err, ran,
                    intermediates, counts, shape >>

NextTrim ==
    \/ TrimLoopStep
    \/ TrimDataStep

SpecTrim == InitTrim /\ [][NextTrim]_vars

(***************************************************************************)
(* The block sums on their own: _resample_10hz and _sum_counts, and the    *)
(* loops of _extract_slow on the same signal.                              *)
(***************************************************************************)
\* The longest signal given to a block sum.
MaxSignal == 45

\* The signals are i |-> (a * i * i + b * i + a) % 129 for a, b up to this.
MaxSignalCoef == 2

Signal(a, b, n) == Arr([i \in 1..n |-> (a * i * i + b * i + a) % (MaxCount + 1)])

Signals ==
    {Signal(a, b, n) : a \in 0..MaxSignalCoef, b \in 0..MaxSignalCoef, n \in 0..MaxSignal}

InitBlock ==
    /\ freq = 30
    /\ epoch \in 1..MaxEpoch
    /\ fast = TRUE
    /\ raw = <<>>
    /\ lfe_select = FALSE
    /\ err = "none"
    /\ downsample_data = <<>>
    /\ bpf_data = <<>>
    /\ \E sig \in Signals :
          \/ /\ pc = "resample_10hz"
             /\ ran = {"resample", "filter", "trim"}
             /\ trim_data = << sig >>
             /\ downsample_10hz = <<>>
          \/ /\ pc = "sum"
             /\ ran = {"resample", "filter", "trim", "resample_10hz"}
             /\ trim_data = <<>>
             /\ downsample_10hz = << sig >>
    /\ epoch_counts = <<>>
    /\ slow_counts = <<>>
    /\ loops = NoLoops
    /\ counts = <<>>
    /\ shape = <<>>

\* The 10 Hz loop of _extract_slow, run on the signal _resample_10hz is given.
DecimateLoopStep ==
    /\ pc = "resample_10hz"
    /\ "decimate" \notin loops.done
    /\ loops' = [loops EXCEPT !.decimate = DecimateLoop(trim_data[1]),
                              !.done = @ \cup {"decimate"}]
    /\ UNCHANGED << raw, freq, epoch, fast, lfe_select, pc, err, ran,
                    intermediates, counts, shape >>

\* The epoch loop of _extract_slow, run on the signal _sum_counts is given.
EpochLoopStep ==
    /\ pc = "sum"
    /\ "epochs" \notin loops.done
    /\ loops' = [loops EXCEPT !.epochs = EpochLoop(downsample_10hz[1], epoch * 10),
                              !.done = @ \cup {"epochs"}]
    /\ UNCHANGED << raw, freq, epoch, fast, lfe_select, pc, err, ran,
                    intermediates, counts, shape >>

NextBlock ==
    \/ DecimateLoopStep
    \/ Resample10hzStep
    \/ EpochLoopStep
    \/ SumCountsStep

SpecBlock == InitBlock /\ [][NextBlock]_vars

(***************************************************************************)
(* Calls on three axes of signal, for the independence of the axes.        *)
(***************************************************************************)
InitAxes ==
    /\ Init
    /\ freq \in SupportedFrequencies
    /\ epoch = 1
    /\ Len(raw) = 3
    /\ Len(raw[1]) >= freq - 1
    /\ raw # RawInput(1, Len(raw[1]), 3, freq)

SpecAxes == InitAxes /\ [][Next]_vars

(***************************************************************************)
(* The properties.                                                         *)
(***************************************************************************)
Rows == Len(raw[1])

Ended == pc \in {"done", "raised"}

\* A call the contract covers: three columns, a supported frequency, an
\* epoch of at least a second.
RegularCall == Len(raw) = 3 /\ freq \in SupportedFrequencies /\ epoch >= 1

\* C1: for a supported frequency, N >= 1 rows of triplets and E >= 1, the
\* fast mode and the reference mode return identical count matrices: a call
\* that has ended has returned, the call in the other mode returns too, and
\* the two matrices are equal.
ModesAgree ==
    (RegularCall /\ Rows >= 1 /\ Ended) =>
        /\ err = "none"
        /\ GetCounts(raw, freq, epoch, ~fast).err = "none"
        /\ GetCounts(raw, freq, epoch, ~fast).counts = counts

\* C2: for a supported frequency, N >= 1 and E >= 1, either mode returns
\* floor(S / (30 * E)) rows, where S = floor(N * L / M).
RowsAreCompletedEpochs ==
    (RegularCall /\ Rows >= 1 /\ Ended) =>
        /\ err = "none"
        /\ Len(counts) =
              ((Rows * Factors(freq)[1]) \div Factors(freq)[2]) \div (30 * epoch)

\* C3: an empty raw series with a supported frequency and E >= 1 gives a
\* result of zero rows and no error, in either mode.
EmptyGivesEmpty ==
    (RegularCall /\ Rows = 0) =>
        /\ err = "none"
        /\ pc = "done" => shape[1] = 0

\* C4: with an epoch length E <= 0 and a supported frequency, get_counts
\* fails before any resampling, filtering or summing is done, and returns no
\* count matrix, in either mode.
BadEpochFailsFirst ==
    (Len(raw) = 3 /\ freq \in SupportedFrequencies /\ epoch <= 0) =>
        /\ ran = {}
        /\ pc # "done"

\* C5: with a number of columns other than 3, get_counts fails and returns
\* no count matrix, in either mode.
BadShapeFails ==
    (Len(raw) # 3 /\ freq \in SupportedFrequencies /\ epoch >= 1) =>
        pc # "done"

\* C6: with a frequency outside 30, 40, ..., 100, get_counts fails before
\* any computation on the data: no stage runs, no intermediate array is
\* made, and no count matrix is returned.
UnsupportedFrequencyFailsFirst ==
    freq \notin {30, 40, 50, 60, 70, 80, 90, 100} =>
        /\ pc = "call" \/ (pc = "raised" /\ err = "AssertionError")
        /\ ran = {}
        /\ intermediates = << <<>>, <<>>, <<>>, <<>>, <<>>, <<>> >>
        /\ counts = <<>>
        /\ shape = <<>>

UnsupportedFrequencyFailed ==
    /\ freq \notin {30, 40, 50, 60, 70, 80, 90, 100}
    /\ Rows >= 1
    /\ pc = "raised"
    /\ err = "AssertionError"

\* The input that agrees with data on column k and has the signals of layout
\* l in the other columns.
AltInput(data, k, l, frequency) ==
    Arr([j \in 1..Len(data) |->
           IF j = k THEN data[j]
           ELSE Pattern(PatternOf(l, j), Len(data[j]), frequency)])

Column(m, k) == Arr([e \in 1..Len(m) |-> m[e][k]])

\* The layouts the other columns are taken from: silence, and the last.
AltLayouts == {1, MaxLayout}

\* C7: the output column of an axis depends on that axis's raw samples
\* alone: an input that agrees on the axis and differs on the other two
\* gives the same column, in either mode.
AxesIndependent ==
    (RegularCall /\ pc = "done") =>
        \A k \in 1..3, l \in AltLayouts :
            LET other == GetCounts(AltInput(raw, k, l, freq), freq, epoch, fast)
            IN  /\ other.err = "none"
                /\ Column(other.counts, k) = Column(counts, k)

\* A fast call through the low-pass filter has returned two rows of counts,
\* and an input that differs on Y and Z gives other counts with the same X.
AxesCompared ==
    /\ RegularCall
    /\ pc = "done"
    /\ fast
    /\ ~NoLpf(freq)
    /\ Len(counts) = 2
    /\ counts[1][1] > 0
    /\ \E l \in AltLayouts :
          LET other == GetCounts(AltInput(raw, 1, l, freq), freq, epoch, fast)
          IN  /\ other.counts # counts
              /\ Column(other.counts, 1) = Column(counts, 1)

TrimStep == pc = "trim" /\ pc' = "resample_10hz"

\* C8: with lfe_select False, a filtered value v with r = |v| is trimmed to
\* 128 when r > 128, to 0 when r < 4 and to floor(r) otherwise, which is 0
\* or in 4..128, and the loop of _extract_slow gives the same.
TrimStandard ==
    [][(TrimStep /\ ~lfe_select) =>
          \A c \in 1..Len(bpf_data[1]) :
              /\ trim_data'[1][c] =
                    IF Abs(bpf_data[1][c]) > 128 * Unit THEN 128
                    ELSE IF Abs(bpf_data[1][c]) < 4 * Unit THEN 0
                    ELSE Abs(bpf_data[1][c]) \div Unit
              /\ trim_data'[1][c] \in {0} \cup 4..128
              /\ "trim" \in loops.done => loops.trim[c] = trim_data'[1][c]]_vars

TrimmedStandard ==
    /\ pc = "resample_10hz"
    /\ ~lfe_select
    /\ "trim" \in loops.done
    /\ trim_data = << loops.trim >>
    /\ trim_data[1] = << 0, 4, 4 >>

\* C9: with lfe_select True, a filtered value v with r = |v| is trimmed to
\* 128 when r > 128, to 0 when r < 1, to floor(r) - 1 when 1 <= r < 4 and to
\* floor(r) otherwise, which is never negative, and the loop of
\* _extract_slow gives the same.
TrimLfe ==
    [][(TrimStep /\ lfe_select) =>
          \A c \in 1..Len(bpf_data[1]) :
              /\ trim_data'[1][c] =
                    IF Abs(bpf_data[1][c]) > 128 * Unit THEN 128
                    ELSE IF Abs(bpf_data[1][c]) < 1 * Unit THEN 0
                    ELSE IF Abs(bpf_data[1][c]) < 4 * Unit
                    THEN (Abs(bpf_data[1][c]) \div Unit) - 1
                    ELSE Abs(bpf_data[1][c]) \div Unit
              /\ trim_data'[1][c] \in Nat
              /\ "trim" \in loops.done => loops.trim[c] = trim_data'[1][c]]_vars

TrimmedLfe ==
    /\ pc = "resample_10hz"
    /\ lfe_select
    /\ "trim" \in loops.done
    /\ trim_data = << loops.trim >>
    /\ trim_data[1] = << 1, 2, 2 >>

\* The sum of the j-th window of K samples of sig (j from 1).
RECURSIVE WindowSum(_, _, _, _)
WindowSum(sig, j, K, i) ==
    IF i = 0 THEN 0 ELSE sig[(j - 1) * K + i] + WindowSum(sig, j, K, i - 1)

\* The windows of K samples of sig, each reduced to its sum over div.
Windows(sig, K, div) ==
    Arr([j \in 1..(Len(sig) \div K) |-> WindowSum(sig, j, K, K) \div div])

\* C10: on a signal of n non-negative integers, _resample_10hz (K = 3,
\* floor of the sum over 3) and _sum_counts (K = 10 * E) return floor(n / K)
\* values, the j-th the reduction of samples j * K .. j * K + K - 1, as the
\* loops of _extract_slow do; a remainder shorter than K gives no value.
BlockSums ==
    [][/\ (pc = "resample_10hz" /\ pc' = "sum") =>
             /\ downsample_10hz' = << Windows(trim_data[1], 3, 3) >>
             /\ "decimate" \in loops.done => loops.decimate = downsample_10hz'[1]
       /\ (pc = "sum" /\ pc' = "return") =>
             /\ epoch_counts' = << Windows(downsample_10hz[1], 10 * epoch, 1) >>
             /\ "epochs" \in loops.done => loops.epochs = epoch_counts'[1]]_vars

BlocksSummed ==
    /\ pc = "return"
    /\ loops.done = {"decimate", "epochs"}
    /\ Len(loops.decimate) = 15
    /\ epoch = 1
    /\ Len(epoch_counts[1]) = 1
    /\ epoch_counts[1][1] > 0
    /\ epoch_counts = << loops.epochs >>

\* Every sample of every column is zero.
AllZero(data) == \A k \in 1..Len(data) : \A i \in 1..Len(data[k]) : data[k][i] = 0

\* C11: for a supported frequency, N >= 1 and E >= 1, a raw series of zeros
\* gives, in either mode, a count matrix of zeros with one row per completed
\* epoch, floor(floor(N * L / M) / (30 * E)) of them.
ZeroGivesZero ==
    (RegularCall /\ Rows >= 1 /\ AllZero(raw) /\ Ended) =>
        /\ err = "none"
        /\ \A e \in 1..Len(counts) : counts[e] = << 0, 0, 0 >>
        /\ Len(counts) =
              ((Rows * Factors(freq)[1]) \div Factors(freq)[2]) \div (30 * epoch)

============================================================================
